---- MODULE Spec2Model ----
(***************************************************************************)
(* Markowitz Portfolio Optimizer dashboard (src/Dahsboard_New3.py).        *)
(*                                                                         *)
(* The state is the Dash component tree's input properties (button click   *)
(* count, the two dropdown values, the target-volatility input), the       *)
(* style of the target-volatility container, the external world the        *)
(* callback reads (clock, market data, optimizer behaviour) and the record *)
(* of the last invocation of update_output.                                *)
(*                                                                         *)
(* Units: weights and volatilities are integers in millionths (1e-6);      *)
(* the target-volatility input is in hundredths (its step is 0.01);        *)
(* returns are exact rationals <<num, den>>, NaN is <<0, 0>>.              *)
(***************************************************************************)
EXTENDS Integers, Sequences, FiniteSets, TLC

VARIABLES n_clicks, time_horizon, risk_preference, target_volatility,
          container_style, env, run, runs

vars == <<n_clicks, time_horizon, risk_preference, target_volatility,
          container_style, env, run, runs>>

(***************************************************************************)
(* Bounds of the model.                                                    *)
(***************************************************************************)
MaxClicks == 2
MaxRuns == 3
NumTickers == 3
NumDates == 3
DaySpan == 5

(***************************************************************************)
(* Layout constants.                                                       *)
(***************************************************************************)
time_horizons ==
  [p \in {"3 Months", "1 Year", "3 Years", "5 Years", "10 Years"} |->
     CASE p = "3 Months" -> 3
       [] p = "1 Year"   -> 12
       [] p = "3 Years"  -> 36
       [] p = "5 Years"  -> 60
       [] p = "10 Years" -> 120]

risk_preferences == <<"Max_Sharpe", "Min_Volatility", "Specific_Risk">>

RiskPreferenceSet == {risk_preferences[i] : i \in DOMAIN risk_preferences}

\* dcc.Dropdown(id='time-horizon-dropdown', value='')
TimeHorizonDefault == ""
\* dcc.Dropdown(id='risk-preference-dropdown', value='Select...')
RiskPreferenceDefault == "Select..."
\* dcc.Input(id='target-volatility-input', value=0.1, min=0, max=1, step=0.01)
TargetVolatilityDefault == 10
TargetVolatilityMin == 0
TargetVolatilityMax == 100

\* The universe of line 109, cut to its first NumTickers symbols.
AllTickers == <<"AXP", "AMGN", "AAPL", "BA", "CAT", "CSCO">>
Tickers == SubSeq(AllTickers, 1, NumTickers)
TickerSet == {Tickers[i] : i \in DOMAIN Tickers}

(***************************************************************************)
(* datetime: [day |-> days since 1970-01-01, sec |-> second of the day].   *)
(***************************************************************************)
\* datetime - timedelta(days=k)
MinusDays(dt, k) == [dt EXCEPT !.day = dt.day - k]

\* The proleptic Gregorian date <<year, month, day>> of a day number.
CivilFromDays(n) ==
  LET z   == n + 719468
      era == z \div 146097
      doe == z - era * 146097
      yoe == (doe - doe \div 1460 + doe \div 36524 - doe \div 146096) \div 365
      doy == doe - (365 * yoe + yoe \div 4 - yoe \div 100)
      mp  == (5 * doy + 2) \div 153
      d   == doy - (153 * mp + 2) \div 5 + 1
      m   == IF mp < 10 THEN mp + 3 ELSE mp - 9
      y   == yoe + era * 400 + (IF m <= 2 THEN 1 ELSE 0)
  IN  <<y, m, d>>

\* datetime.strftime('%Y-%m-%d'): the calendar date, the time of day dropped.
\* The zero-padded text orders as the triple <<year, month, day>> does.
Strftime(dt) == CivilFromDays(dt.day)

\* Variant: a month taken as 31 days.
DateRangeDays31(months) == 31 * months

\* timedelta(days=30 * months)
DateRangeDays(months) == 30 * months

\* The date range of lines 102-106 for an invocation at `now`.

DateRange(now, label) ==
  LET end_dt   == MinusDays(now, 1)
      months   == time_horizons[label]
      start_dt == MinusDays(end_dt, DateRangeDays(months))
  IN  [start_date |-> Strftime(start_dt), end_date |-> Strftime(end_dt)]

(***************************************************************************)
(* Exact arithmetic on rationals <<num, den>> with den > 0; NaN is <<0,0>> *)
(* and propagates through every operation, as a float NaN does.            *)
(***************************************************************************)
Abs(x) == IF x < 0 THEN -x ELSE x

RECURSIVE GCD(_, _)
GCD(a, b) == IF b = 0 THEN a ELSE GCD(b, a % b)

NaN == <<0, 0>>
IsNaN(x) == x[2] = 0

Rat(n, d) ==
  LET g == GCD(Abs(n), d)
  IN  <<n \div g, d \div g>>

RAdd(a, b) ==
  IF IsNaN(a) \/ IsNaN(b) THEN NaN
  ELSE LET l == (a[2] \div GCD(a[2], b[2])) * b[2]
       IN  Rat(a[1] * (l \div a[2]) + b[1] * (l \div b[2]), l)

RNeg(a) == IF IsNaN(a) THEN NaN ELSE <<-a[1], a[2]>>

RMul(a, b) ==
  IF IsNaN(a) \/ IsNaN(b) THEN NaN
  ELSE LET g1 == GCD(Abs(a[1]), b[2])
           g2 == GCD(Abs(b[1]), a[2])
       IN  <<(a[1] \div g1) * (b[1] \div g2), (a[2] \div g2) * (b[2] \div g1)>>

\* a / b for b > 0
RDiv(a, b) ==
  IF IsNaN(a) \/ IsNaN(b) THEN NaN
  ELSE RMul(a, <<b[2], b[1]>>)

ROne == <<1, 1>>
RZero == <<0, 1>>

\* A weight in millionths as a rational.
WeightUnit == 10 ^ 6
RWeight(w) == Rat(w, WeightUnit)

(***************************************************************************)
(* pandas.  A Series is [index, values]; a DataFrame is [index, columns,   *)
(* data] with data[c] the column of label c, aligned on index.             *)
(***************************************************************************)
Positions(s) == [i \in 1..Len(s) |-> i]

\* Series.pct_change(): the first entry has no predecessor and is NaN.
PctChangeValues(v) ==
  [i \in 1..Len(v) |->
     IF i = 1 THEN NaN ELSE RAdd(RDiv(v[i], v[i - 1]), RNeg(ROne))]

SeriesPctChange(s) == [s EXCEPT !.values = PctChangeValues(s.values)]

\* Series.dropna()
SeriesDropna(s) ==
  LET keep == SelectSeq(Positions(s.index), LAMBDA i : ~IsNaN(s.values[i]))
  IN  [index  |-> [k \in 1..Len(keep) |-> s.index[keep[k]]],
       values |-> [k \in 1..Len(keep) |-> s.values[keep[k]]]]

\* DataFrame.pct_change()
FramePctChange(df) ==
  [df EXCEPT !.data = [c \in DOMAIN df.data |-> PctChangeValues(df.data[c])]]

\* DataFrame.dropna(): a row is kept when none of its entries is NaN.
FrameDropna(df) ==
  LET keep == SelectSeq(Positions(df.index),
                        LAMBDA i : \A c \in DOMAIN df.data : ~IsNaN(df.data[c][i]))
  IN  [index   |-> [k \in 1..Len(keep) |-> df.index[keep[k]]],
       columns |-> df.columns,
       data    |-> [c \in DOMAIN df.data |->
                      [k \in 1..Len(keep) |-> df.data[c][keep[k]]]]]

\* Variant: the values paired with the keys in another order.
SeriesFromItemsMislabelled(items) ==
  [index  |-> [i \in 1..Len(items) |-> items[Len(items) + 1 - i][1]],
   values |-> [i \in 1..Len(items) |-> RWeight(items[i][2])]]

\* pd.Series(dict): the dict's items in order, keys as the index.
SeriesFromItems(items) ==
  [index  |-> [i \in 1..Len(items) |-> items[i][1]],
   values |-> [i \in 1..Len(items) |-> RWeight(items[i][2])]]

\* The value a Series holds for a label of its index.
SeriesAt(s, label) ==
  s.values[CHOOSE i \in 1..Len(s.index) : s.index[i] = label]

SeriesLabels(s) == {s.index[i] : i \in 1..Len(s.index)}

\* DataFrame * Series: the Series is aligned on the frame's column labels;
\* a label only one side has gives a column of NaN.
FrameTimesSeries(df, s) ==
  LET labels == DOMAIN df.data \cup SeriesLabels(s)
  IN  [index   |-> df.index,
       columns |-> df.columns,
       data    |-> [c \in labels |->
                      [i \in 1..Len(df.index) |->
                         IF c \in DOMAIN df.data /\ c \in SeriesLabels(s)
                         THEN RMul(df.data[c][i], SeriesAt(s, c))
                         ELSE NaN]]]

RECURSIVE SumSkipNa(_, _)
SumSkipNa(f, S) ==
  IF S = {} THEN RZero
  ELSE LET c == CHOOSE x \in S : TRUE
       IN  IF IsNaN(f[c]) THEN SumSkipNa(f, S \ {c})
           ELSE RAdd(f[c], SumSkipNa(f, S \ {c}))

\* DataFrame.sum(axis=1): per row, over the columns, NaN skipped.
FrameSumAxis1(df) ==
  [index  |-> df.index,
   values |-> [i \in 1..Len(df.index) |->
                 SumSkipNa([c \in DOMAIN df.data |-> df.data[c][i]], DOMAIN df.data)]]

\* 1 + Series, Series - 1
SeriesAddScalar(s, k) ==
  [s EXCEPT !.values = [i \in 1..Len(s.values) |-> RAdd(s.values[i], k)]]

\* Series.cumprod(): NaN entries stay NaN and are skipped by the product.
RECURSIVE CumprodAt(_, _)
CumprodAt(v, i) ==
  IF i = 0 THEN ROne
  ELSE IF IsNaN(v[i]) THEN CumprodAt(v, i - 1)
       ELSE RMul(CumprodAt(v, i - 1), v[i])

SeriesCumprod(s) ==
  [s EXCEPT !.values = [i \in 1..Len(s.values) |->
                          IF IsNaN(s.values[i]) THEN NaN ELSE CumprodAt(s.values, i)]]

\* (1 + returns).cumprod() - 1
CumulativeReturns(returns) ==
  SeriesAddScalar(SeriesCumprod(SeriesAddScalar(returns, ROne)), RNeg(ROne))

(***************************************************************************)
(* Weights.  A weight dict is the sequence of its items <<ticker, w>>.     *)
(***************************************************************************)
\* Round x to the nearest multiple of step, ties to the even multiple.
RoundHalfEven(x, step) ==
  LET a == Abs(x)
      q == a \div step
      r == a % step
      n == IF 2 * r < step THEN q
           ELSE IF 2 * r > step THEN q + 1
           ELSE IF q % 2 = 0 THEN q ELSE q + 1
  IN  IF x < 0 THEN -(n * step) ELSE n * step

\* EfficientFrontier.clean_weights(cutoff=1e-4, rounding=5)
CleanCutoff == 100
CleanRounding == 10

CleanWeight(w) ==
  RoundHalfEven(IF Abs(w) < CleanCutoff THEN 0 ELSE w, CleanRounding)

clean_weights(weights) ==
  [i \in 1..Len(weights) |-> <<weights[i][1], CleanWeight(weights[i][2])>>]

\* OrderedDict(zip(tickers, weights))
MakeOutputWeights(w) == [i \in 1..Len(Tickers) |-> <<Tickers[i], w[i]>>]

\* sorted(items, key=lambda item: item[1], reverse=True): stable, so items of
\* equal weight keep their order.
InsertDescending(acc, x) ==
  LET k == Cardinality({j \in 1..Len(acc) : acc[j][2] >= x[2]})
  IN  SubSeq(acc, 1, k) \o <<x>> \o SubSeq(acc, k + 1, Len(acc))

RECURSIVE SortedDescendingUpTo(_, _)
SortedDescendingUpTo(items, n) ==
  IF n = 0 THEN <<>>
  ELSE InsertDescending(SortedDescendingUpTo(items, n - 1), items[n])

SortedDescending(items) == SortedDescendingUpTo(items, Len(items))

\* Variant: the zero-weight filter written as v >= 0.
KeepWeightNonNegative(v) == v >= 0

KeepWeight(v) == v > 0

\* {k: v for k, v in sorted(...) if v > 0}
filtered_sorted_weights(cleaned) ==
  SelectSeq(SortedDescending(cleaned), LAMBDA item : KeepWeight(item[2]))

\* round(min(weights.values()), 4)
Round4Step == 100

RECURSIVE MinValueUpTo(_, _)
MinValueUpTo(items, n) ==
  IF n = 1 THEN items[1][2]
  ELSE LET m == MinValueUpTo(items, n - 1)
       IN  IF items[n][2] < m THEN items[n][2] ELSE m

MinValue(items) == MinValueUpTo(items, Len(items))

(***************************************************************************)
(* The callback update_output (lines 99-253), stage by stage.  A stage     *)
(* takes the record of the invocation so far and leaves it alone once the  *)
(* invocation has returned or raised.  The world `e` gives what the        *)
(* external collaborators answer: e.now the clock, e.prices and e.dji the  *)
(* downloaded adjusted closes, e.opt the optimizer's results, e.fault the  *)
(* step (if any) whose library call raises and the exception it raises.    *)
(***************************************************************************)
EmptySeries == [index |-> <<>>, values |-> <<>>]

\* html.Div()
EmptyDiv == [kind |-> "Div", data |-> <<>>]
\* go.Figure()
EmptyFigure == [kind |-> "Figure", data |-> <<>>]
\* html.Div("Invalid risk preference selected.")
InvalidNotice == [kind |-> "InvalidRiskPreference", data |-> <<>>]
\* "Error: Specified target volatility is not achievable." with
\* "The minimum achievable volatility is: {min_volatility_value}"
ErrorMessage(min_volatility_value) ==
  [kind |-> "TargetNotAchievable", data |-> min_volatility_value]

OptimizedPortfolioDiv(weights) == [kind |-> "OptimizedWeights", data |-> weights]

MetricNames == <<"Annual Return", "Sharpe Ratio", "Volatility",
                 "Consecutive Wins", "Consecutive Losses", "CAGR">>
MetricsTableContainer == [kind |-> "MetricsTable", data |-> MetricNames]

Figure(portfolio, dow) ==
  [kind |-> "Figure",
   data |-> [portfolio |-> [x |-> portfolio.index, y |-> portfolio.values],
             dow       |-> [x |-> dow.index, y |-> dow.values]]]

NoRun ==
  [status |-> "running", in_try |-> FALSE, started |-> FALSE,
   raised |-> "none", caught |-> "none", failed_step |-> "none",
   ret |-> <<>>,
   downloads |-> 0, estimates |-> 0, optimizations |-> 0,
   start_date |-> <<>>, end_date |-> <<>>,
   weights |-> <<>>, cleaned_weights |-> <<>>, filtered_sorted_weights |-> <<>>,
   optimized_portfolio_returns |-> EmptySeries]

Returns(r, values) == [r EXCEPT !.status = "returned", !.ret = values]

Raises(r, exc, step, inside) ==
  [r EXCEPT !.status = "raised", !.raised = exc, !.failed_step = step,
            !.in_try = inside]

Faulty(e, step) == e.fault.step = step

\* prices = pd.DataFrame({ticker: data[ticker]['Adj Close'] ...})
PricesFrame(e) ==
  [index |-> Positions(e.prices[Tickers[1]]), columns |-> Tickers, data |-> e.prices]

DowJonesSeries(e) == [index |-> Positions(e.dji), values |-> e.dji]

\* Lines 100-106: the guard on n_clicks, then the date range.
StageDates(r, nc, th, e) ==
  IF ~(nc > 0) THEN Returns(r, <<EmptyDiv, EmptyDiv, EmptyFigure>>)
  ELSE IF th \notin DOMAIN time_horizons
       THEN Raises([r EXCEPT !.started = TRUE], "KeyError", "time_horizons", FALSE)
       ELSE [r EXCEPT !.started = TRUE,
                      !.start_date = DateRange(e.now, th).start_date,
                      !.end_date = DateRange(e.now, th).end_date]

\* Lines 109-111: the universe's prices.
StageFetch(r, e) ==
  IF r.status # "running" THEN r
  ELSE IF Faulty(e, "download")
       THEN Raises([r EXCEPT !.downloads = @ + 1], e.fault.exc, "download", FALSE)
       ELSE [r EXCEPT !.downloads = @ + 1]

\* Lines 114-115: expected returns, then the sample covariance.
StageEstimate(r, e) ==
  IF r.status # "running" THEN r
  ELSE IF Faulty(e, "estimate")
       THEN Raises([r EXCEPT !.estimates = @ + 1], e.fault.exc, "estimate", FALSE)
       ELSE [r EXCEPT !.estimates = @ + 2]

\* ef.efficient_risk raises ValueError for a target below the minimum
\* volatility of the (mu, S) pair.
TargetUnit == 10 ^ 4
Infeasible(tv, e) == tv * TargetUnit < e.opt.min_vol

\* Lines 118-127, the first statements of the try block.
StageOptimize(r, rp, tv, e) ==
  IF r.status # "running" THEN r
  ELSE IF rp \notin RiskPreferenceSet
       THEN Returns(r, <<InvalidNotice, EmptyDiv>>)
       ELSE LET called == [r EXCEPT !.optimizations = @ + 1]
            IN  IF rp = "Specific_Risk" /\ Infeasible(tv, e)
                THEN Raises(called, "ValueError", "efficient_risk", TRUE)
                ELSE IF Faulty(e, "optimize")
                THEN Raises(called, e.fault.exc, "optimize", TRUE)
                ELSE [called EXCEPT !.weights =
                        MakeOutputWeights(IF rp = "Min_Volatility"
                                          THEN e.opt.min_weights
                                          ELSE e.opt.weights)]

\* Lines 129-140.
StageClean(r, e) ==
  IF r.status # "running" THEN r
  ELSE IF Faulty(e, "clean_weights")
       THEN Raises(r, e.fault.exc, "clean_weights", TRUE)
       ELSE [r EXCEPT !.cleaned_weights = clean_weights(r.weights),
                      !.filtered_sorted_weights =
                         filtered_sorted_weights(clean_weights(r.weights))]

\* Lines 143-144.
StageReturns(r, e) ==
  IF r.status # "running" THEN r
  ELSE IF Faulty(e, "returns")
       THEN Raises(r, e.fault.exc, "returns", TRUE)
       ELSE LET daily_returns == FrameDropna(FramePctChange(PricesFrame(e)))
            IN  [r EXCEPT !.optimized_portfolio_returns =
                   FrameSumAxis1(FrameTimesSeries(daily_returns,
                                                  SeriesFromItems(r.cleaned_weights)))]

\* Lines 147-152: the benchmark's prices and daily returns for the metrics.
StageBenchmark(r, e) ==
  IF r.status # "running" THEN r
  ELSE IF Faulty(e, "benchmark")
       THEN Raises([r EXCEPT !.downloads = @ + 1], e.fault.exc, "benchmark", TRUE)
       ELSE [r EXCEPT !.downloads = @ + 1]

\* Lines 155-166.
StageStatistics(r, e) ==
  IF r.status # "running" THEN r
  ELSE IF Faulty(e, "statistics")
       THEN Raises(r, e.fault.exc, "statistics", TRUE)
       ELSE r

\* Line 169.
cumulative_returns_portfolio(r) == CumulativeReturns(r.optimized_portfolio_returns)

\* Lines 172-174: the benchmark downloaded again, pct_change() kept whole.
dow_jones_returns(e) == SeriesPctChange(DowJonesSeries(e))

cumulative_returns_dow(e) == CumulativeReturns(dow_jones_returns(e))

\* Lines 169-242.
StagePlot(r, e) ==
  IF r.status # "running" THEN r
  ELSE Returns([r EXCEPT !.downloads = @ + 1],
               <<OptimizedPortfolioDiv(r.filtered_sorted_weights),
                 MetricsTableContainer,
                 Figure(cumulative_returns_portfolio(r), cumulative_returns_dow(e))>>)

\* round(min(min_volatility.values()), 4)
min_volatility_value(e) ==
  RoundHalfEven(MinValue(MakeOutputWeights(e.opt.min_weights)), Round4Step)

\* Lines 244-251: except ValueError, whichever statement of the try raised.
Catches(r) == r.status = "raised" /\ r.in_try /\ r.raised = "ValueError"

StageExcept(r, e) ==
  IF ~Catches(r) THEN r
  ELSE LET caught == [r EXCEPT !.caught = r.raised, !.raised = "none",
                               !.optimizations = @ + 1]
       IN  IF ~e.fault.handler_ok
           THEN [caught EXCEPT !.raised = "OtherError", !.in_try = FALSE]
           ELSE Returns(caught, <<EmptyDiv, ErrorMessage(min_volatility_value(e))>>)

update_output(nc, th, rp, tv, e) ==
  StageExcept(
    StagePlot(
      StageStatistics(
        StageBenchmark(
          StageReturns(
            StageClean(
              StageOptimize(
                StageEstimate(
                  StageFetch(
                    StageDates(NoRun, nc, th, e), e), e), rp, tv, e), e), e), e), e), e), e)

\* Lines 82-86.
toggle_target_volatility_input(rp) ==
  IF rp = "Specific_Risk" THEN "block" ELSE "none"

(***************************************************************************)
(* The worlds the callback runs in.                                        *)
(***************************************************************************)
\* Days since 1970-01-01 of a date <<year, month, day>>, by counting the
\* days of the years and months before it.
IsLeap(y) == (y % 4 = 0 /\ y % 100 # 0) \/ y % 400 = 0

DaysInMonth(y, m) ==
  IF m = 2 THEN (IF IsLeap(y) THEN 29 ELSE 28)
  ELSE IF m \in {4, 6, 9, 11} THEN 30 ELSE 31

LeapDaysBefore(y) == (y - 1) \div 4 - (y - 1) \div 100 + (y - 1) \div 400

RECURSIVE DaysBeforeMonth(_, _)
DaysBeforeMonth(y, m) ==
  IF m = 1 THEN 0 ELSE DaysBeforeMonth(y, m - 1) + DaysInMonth(y, m - 1)

DaysFromCivil(date) ==
  365 * (date[1] - 1970) + (LeapDaysBefore(date[1]) - LeapDaysBefore(1970))
  + DaysBeforeMonth(date[1], date[2]) + (date[3] - 1)

\* Invocation times: the days from a base day on, early and late in the day.
BaseDays == {DaysFromCivil(<<2024, 2, 27>>), DaysFromCivil(<<2025, 12, 29>>)}
SecondsOfDay == {0, 43200, 86399}
Clocks ==
  {[day |-> b + k, sec |-> t] : b \in BaseDays, k \in 0..DaySpan, t \in SecondsOfDay}
BaseClock == [day |-> DaysFromCivil(<<2024, 2, 27>>), sec |-> 43200]

\* Adjusted closes over NumDates trading days.  A series that starts late
\* has NaN on the days before its first quote.
PriceShapes == {"up", "down", "late"}
Price(shape, i) ==
  CASE shape = "up"   -> <<((i - 1) % 3) + 1, 1>>
    [] shape = "down" -> <<3 - ((i - 1) % 3), 1>>
    [] shape = "late" -> IF i = 1 THEN NaN ELSE <<(i % 3) + 1, 1>>
PriceSeries(shape) == [i \in 1..NumDates |-> Price(shape, i)]
PriceTables ==
  {[c \in TickerSet |-> PriceSeries(f[c])] : f \in [TickerSet -> PriceShapes]}
BasePrices ==
  [c \in TickerSet |->
     LET k == CHOOSE i \in 1..NumTickers : Tickers[i] = c
     IN  PriceSeries(IF k % 3 = 1 THEN "up" ELSE IF k % 3 = 2 THEN "down" ELSE "late")]
DowSeries == {PriceSeries(sh) : sh \in PriceShapes}
BaseDow == PriceSeries("up")

\* Raw optimizer weights: one per ticker, in millionths, summing to one
\* within the solver's tolerance, with the solver's noise around zero.
RawWeightLevels == {-3, 37, 249996, 250004, 500004, 750003, 999996}
SolverTolerance == 50

RECURSIVE SumUpTo(_, _)
SumUpTo(w, n) == IF n = 0 THEN 0 ELSE SumUpTo(w, n - 1) + w[n]

RawWeightVectors ==
  {w \in [1..NumTickers -> RawWeightLevels] :
     Abs(SumUpTo(w, NumTickers) - WeightUnit) <= SolverTolerance}
RankedWeightVectors ==
  {w \in RawWeightVectors : \A i \in 1..(NumTickers - 1) : w[i] >= w[i + 1]}
BaseWeights == [i \in 1..NumTickers |-> IF i <= 2 THEN 500004 ELSE -3]
BaseMinWeights == [i \in 1..NumTickers |-> IF i = 1 THEN 999996 ELSE -3]

\* The minimum volatility of the (mu, S) pair, in millionths.
MinVolLevels == {80000, 120000}

Optimizer(w, m, v) == [weights |-> w, min_weights |-> m, min_vol |-> v]

\* The library call that raises, and what it raises.
FaultSteps == {"download", "estimate", "optimize", "clean_weights", "returns",
               "benchmark", "statistics"}
NoFault == [step |-> "none", exc |-> "none", handler_ok |-> TRUE]
Faults ==
  {NoFault, [NoFault EXCEPT !.handler_ok = FALSE]}
  \cup {[step |-> st, exc |-> "OtherError", handler_ok |-> TRUE] : st \in FaultSteps}
  \cup {[step |-> st, exc |-> "ValueError", handler_ok |-> h] :
          st \in FaultSteps, h \in BOOLEAN}

World(now, prices, dji, opt, fault) ==
  [now |-> now, prices |-> prices, dji |-> dji, opt |-> opt, fault |-> fault]

BaseWorlds ==
  {World(BaseClock, BasePrices, BaseDow, Optimizer(BaseWeights, BaseMinWeights, v), NoFault) :
     v \in MinVolLevels}

ClockWorlds ==
  {[w EXCEPT !.now = c] : w \in BaseWorlds, c \in Clocks}

OptimizerWorlds ==
  {[w EXCEPT !.opt.weights = x] : w \in BaseWorlds, x \in RawWeightVectors}
  \cup {[w EXCEPT !.opt.min_weights = x] : w \in BaseWorlds, x \in RawWeightVectors}

PriceWorlds ==
  {[w EXCEPT !.prices = p, !.dji = d, !.opt.weights = x] :
     w \in BaseWorlds, p \in PriceTables, d \in DowSeries, x \in RankedWeightVectors}

FaultWorlds ==
  {[w EXCEPT !.fault = f] : w \in BaseWorlds, f \in Faults}

SessionWorlds ==
  BaseWorlds
  \cup {[w EXCEPT !.fault = [step |-> "optimize", exc |-> "ValueError", handler_ok |-> TRUE]] :
          w \in BaseWorlds}

(***************************************************************************)
(* The page.  Every Input of a callback fires it when its property         *)
(* changes; update_output lists all four of its arguments as Inputs        *)
(* (lines 94-97), toggle_target_volatility_input the risk preference.      *)
(***************************************************************************)
TimeHorizonOptions == DOMAIN time_horizons
RiskPreferenceOptions == RiskPreferenceSet
TargetVolatilityInputs ==
  {TargetVolatilityMin, TargetVolatilityDefault, TargetVolatilityMax}

\* The state the two callbacks leave for the current properties.
Fired ==
  /\ run' = update_output(n_clicks', time_horizon', risk_preference',
                          target_volatility', env')
  /\ runs' = runs + (IF update_output(n_clicks', time_horizon', risk_preference',
                                      target_volatility', env').started
                     THEN 1 ELSE 0)
  /\ container_style' = toggle_target_volatility_input(risk_preference')

\* The page as loaded with the selections th, rp, tv made and no click yet.
Loaded(th, rp, tv, worlds) ==
  /\ n_clicks = 0
  /\ time_horizon = th
  /\ risk_preference = rp
  /\ target_volatility = tv
  /\ env \in worlds
  /\ run = update_output(0, th, rp, tv, env)
  /\ runs = 0
  /\ container_style = toggle_target_volatility_input(rp)

Init ==
  Loaded(TimeHorizonDefault, RiskPreferenceDefault, TargetVolatilityDefault,
         SessionWorlds)

Click ==
  /\ n_clicks < MaxClicks
  /\ runs < MaxRuns
  /\ n_clicks' = n_clicks + 1
  /\ UNCHANGED <<time_horizon, risk_preference, target_volatility, env>>
  /\ Fired

SelectTimeHorizon ==
  /\ runs < MaxRuns
  /\ \E v \in TimeHorizonOptions \ {time_horizon} : time_horizon' = v
  /\ UNCHANGED <<n_clicks, risk_preference, target_volatility, env>>
  /\ Fired

SelectRiskPreference ==
  /\ runs < MaxRuns
  /\ \E v \in RiskPreferenceOptions \ {risk_preference} : risk_preference' = v
  /\ UNCHANGED <<n_clicks, time_horizon, target_volatility, env>>
  /\ Fired

\* The input is on display only for 'Specific_Risk'.
SetTargetVolatility ==
  /\ runs < MaxRuns
  /\ container_style = "block"
  /\ \E v \in TargetVolatilityInputs \ {target_volatility} : target_volatility' = v
  /\ UNCHANGED <<n_clicks, time_horizon, risk_preference, env>>
  /\ Fired

Next == Click \/ SelectTimeHorizon \/ SelectRiskPreference \/ SetTargetVolatility

Spec == Init /\ [][Next]_vars

\* One click on a page whose selections have been made, in the worlds of
\* one family.
Selections(ths, rps, tvs, worlds) ==
  \E th \in ths, rp \in rps, tv \in tvs : Loaded(th, rp, tv, worlds)

FirstClick == n_clicks = 0 /\ Click

AnyRiskPreference == RiskPreferenceOptions \cup {RiskPreferenceDefault}

InitDates ==
  Selections(TimeHorizonOptions \cup {TimeHorizonDefault},
             {"Max_Sharpe", RiskPreferenceDefault}, {TargetVolatilityDefault},
             ClockWorlds)
SpecDates == InitDates /\ [][FirstClick]_vars

InitMarket ==
  Selections({"1 Year"}, AnyRiskPreference, {TargetVolatilityDefault},
             OptimizerWorlds \cup PriceWorlds)
SpecMarket == InitMarket /\ [][FirstClick]_vars

InitFaults ==
  Selections(TimeHorizonOptions, AnyRiskPreference, TargetVolatilityInputs,
             FaultWorlds)
SpecFaults == InitFaults /\ [][FirstClick]_vars

(***************************************************************************)
(* Properties.                                                             *)
(***************************************************************************)
ValidRiskPreference == risk_preference \in {"Max_Sharpe", "Min_Volatility", "Specific_Risk"}
ValidTimeHorizon ==
  time_horizon \in {"3 Months", "1 Year", "3 Years", "5 Years", "10 Years"}
Succeeded ==
  /\ run.status = "returned"
  /\ Len(run.ret) = 3
  /\ run.ret[1].kind = "OptimizedWeights"

\* C1: a run whose risk preference is not one of the three recognized labels
\* returns the invalid-selection notice and has made no download, no
\* estimator call and no optimizer call.
C1_InvalidSelectionDoesNothing ==
  (run.started /\ ValidTimeHorizon /\ ~ValidRiskPreference) =>
     /\ run.status = "returned"
     /\ run.ret[1] = InvalidNotice
     /\ run.downloads = 0
     /\ run.estimates = 0
     /\ run.optimizations = 0

\* C2: for 'Specific_Risk' with a target below the minimum achievable
\* volatility, the run returns the infeasible-target notice and the floor it
\* reports is that minimum volatility rounded to 4 places.
C2_NoticeReportsMinimumVolatility ==
  (/\ run.started /\ ValidTimeHorizon
   /\ risk_preference = "Specific_Risk"
   /\ target_volatility * TargetUnit < env.opt.min_vol
   /\ env.fault = NoFault) =>
     /\ run.status = "returned"
     /\ run.ret[2].kind = "TargetNotAchievable"
     /\ run.ret[2].data = RoundHalfEven(env.opt.min_vol, 100)

\* The month count of each recognized time horizon.
ClaimedMonths ==
  CASE time_horizon = "3 Months" -> 3
    [] time_horizon = "1 Year"   -> 12
    [] time_horizon = "3 Years"  -> 36
    [] time_horizon = "5 Years"  -> 60
    [] time_horizon = "10 Years" -> 120

IsDate(d) ==
  /\ Len(d) = 3
  /\ d[2] \in 1..12
  /\ d[3] \in 1..DaysInMonth(d[1], d[2])

DateBefore(a, b) ==
  \/ a[1] < b[1]
  \/ a[1] = b[1] /\ a[2] < b[2]
  \/ a[1] = b[1] /\ a[2] = b[2] /\ a[3] < b[3]

\* C3: for each of the five time horizons (3, 12, 36, 60, 120 months) and any
\* invocation time, the end date is the day before the invocation, the end
\* date is exactly 30 x months days after the start date, and start < end.
C3_DateRange ==
  (run.started /\ ValidTimeHorizon) =>
     /\ IsDate(run.start_date) /\ IsDate(run.end_date)
     /\ DaysFromCivil(run.end_date) = env.now.day - 1
     /\ DaysFromCivil(run.end_date) - DaysFromCivil(run.start_date) = 30 * ClaimedMonths
     /\ DateBefore(run.start_date, run.end_date)

\* Ten years back from the leap day, invoked in the last second of 1 March.
C3_Witness ==
  /\ run.started
  /\ time_horizon = "10 Years"
  /\ env.now.sec = 86399
  /\ run.end_date = <<2024, 2, 29>>
  /\ run.start_date[1] = 2014

Items(seq) == {seq[i] : i \in 1..Len(seq)}

\* C4: the displayed weights of a successful run are exactly the tickers whose
\* cleaned weight is strictly positive, each with its cleaned weight, in
\* non-increasing order of weight.
C4_DisplayedWeights ==
  Succeeded =>
     LET shown   == run.ret[1].data
         cleaned == run.cleaned_weights
     IN  /\ Items(shown) = {it \in Items(cleaned) : it[2] > 0}
         /\ Len(shown) = Cardinality(Items(shown))
         /\ \A i, j \in 1..Len(shown) : i < j => shown[i][2] >= shown[j][2]

\* A zero-weight ticker is dropped and the display order is not the universe's.
C4_Witness ==
  /\ Succeeded
  /\ \E it \in Items(run.cleaned_weights) : it[2] = 0
  /\ Len(run.ret[1].data) = 2
  /\ run.ret[1].data[1][2] > run.ret[1].data[2][2]
  /\ run.ret[1].data[1][1] # Tickers[1]

\* A ticker's daily return on date d, from the downloaded prices.
ClaimedReturn(c, d) ==
  Rat(env.prices[c][d][1] - env.prices[c][d - 1][1], env.prices[c][d - 1][1])

ClaimedWeight(c) ==
  LET it == CHOOSE x \in Items(run.cleaned_weights) : x[1] = c
  IN  Rat(it[2], 1000000)

RECURSIVE ClaimedPortfolioReturn(_, _)
ClaimedPortfolioReturn(d, n) ==
  IF n = 0 THEN <<0, 1>>
  ELSE RAdd(ClaimedPortfolioReturn(d, n - 1),
            RMul(ClaimedReturn(Tickers[n], d), ClaimedWeight(Tickers[n])))

\* The dates on which every ticker has a daily return.
ClaimedDates ==
  SelectSeq([i \in 1..NumDates |-> i],
            LAMBDA d : d > 1 /\ \A c \in TickerSet :
                         ~IsNaN(env.prices[c][d]) /\ ~IsNaN(env.prices[c][d - 1]))

\* C5: in a successful run the portfolio's return on every date is the sum,
\* over all tickers of the universe, of the ticker's daily return on that date
\* times its weight in the full cleaned vector, zero weights included.
C5_PortfolioReturns ==
  Succeeded =>
     LET port == run.optimized_portfolio_returns
     IN  /\ port.index = ClaimedDates
         /\ Len(port.values) = Len(port.index)
         /\ \A k \in 1..Len(port.index) :
              port.values[k] = ClaimedPortfolioReturn(port.index[k], NumTickers)

\* A ticker of zero cleaned weight whose price moved, in a portfolio that moved.
C5_Witness ==
  /\ Succeeded
  /\ Len(run.optimized_portfolio_returns.values) >= 1
  /\ run.optimized_portfolio_returns.values[1] # <<0, 1>>
  /\ \E it \in Items(run.cleaned_weights) :
        /\ it[2] = 0
        /\ Len(run.filtered_sorted_weights) < NumTickers
        /\ ClaimedReturn(it[1], run.optimized_portfolio_returns.index[1]) # <<0, 1>>

\* The product of (1 + r_i) for i = 1..k.
RECURSIVE ClaimedCumulative(_, _)
ClaimedCumulative(rs, k) ==
  IF k = 0 THEN <<1, 1>> ELSE RMul(ClaimedCumulative(rs, k - 1), RAdd(<<1, 1>>, rs[k]))

Charted(y, rs) ==
  /\ Len(y) = Len(rs)
  /\ \A k \in 1..Len(y) :
       /\ ~IsNaN(y[k])
       /\ y[k] = RAdd(ClaimedCumulative(rs, k), <<-1, 1>>)

\* The benchmark's available returns: one per day after its first quote.
ClaimedDowReturns ==
  LET days == SelectSeq([i \in 1..Len(env.dji) |-> i],
                        LAMBDA d : d > 1 /\ ~IsNaN(env.dji[d]) /\ ~IsNaN(env.dji[d - 1]))
  IN  [k \in 1..Len(days) |->
         Rat(env.dji[days[k]][1] - env.dji[days[k] - 1][1], env.dji[days[k] - 1][1])]

\* The portfolio's half of C6.
C6_PortfolioCharted ==
  Succeeded =>
     Charted(run.ret[3].data.portfolio.y, run.optimized_portfolio_returns.values)

\* C6: both charted series, the portfolio's and the benchmark's, have one
\* point per available daily return, none undefined, the k-th being the
\* product of (1 + r_i) for i = 1..k, minus 1.
C6_BothSeriesCharted ==
  Succeeded =>
     /\ Charted(run.ret[3].data.portfolio.y, run.optimized_portfolio_returns.values)
     /\ Charted(run.ret[3].data.dow.y, ClaimedDowReturns)

\* C7: a failure in any step other than the infeasible target of
\* 'Specific_Risk' is never answered with the "not achievable" notice: the run
\* ends with the exception and no output.
C7_OnlyInfeasibleTargetRecovered ==
  (run.started /\ run.failed_step \notin {"none", "efficient_risk"}) =>
     /\ run.status = "raised"
     /\ run.raised # "none"
     /\ run.ret = <<>>

\* C8: the pipeline has run exactly once per click of the button.
C8_OneRunPerClick == runs = n_clicks

\* C9: whenever update_output starts a run, the time horizon it was given is
\* one of the five keys of time_horizons and the lookup does not fail.
C9_TimeHorizonIsAKey ==
  run.started => (ValidTimeHorizon /\ run.raised # "KeyError")

\* C10: whenever update_output returns, it returns one value for each of the
\* three outputs of the callback.
C10_ThreeOutputs == run.status = "returned" => Len(run.ret) = 3

====
